---- MODULE Spec2Model ----
(***************************************************************************)
(* pysqlscribe/column.py: the validated column identifier (Column) and the *)
(* binary comparison it builds (Expression).                               *)
(*                                                                         *)
(* A Python str is modelled as a sequence of one-character strings, so     *)
(* that quoting, concatenation and decimal formatting are computed and not *)
(* assumed.                                                                *)
(***************************************************************************)
EXTENDS Integers, Sequences, FiniteSets

VARIABLES
    columns,   \* the Column objects alive, each a record [_name |-> str]
    expr,      \* the Expression most recently produced by a comparison: <<e>>, or <<>>
    last       \* the most recent call: what was called, on what, and how it ended

vars == <<columns, expr, last>>

\* ------------------------------------------------------------------ bounds

\* Column objects alive at once.
MaxColumns == 2

\* ------------------------------------------------------- characters, text

Letters ==
    {"a","b","c","d","e","f","g","h","i","j","k","l","m",
     "n","o","p","q","r","s","t","u","v","w","x","y","z",
     "A","B","C","D","E","F","G","H","I","J","K","L","M",
     "N","O","P","Q","R","S","T","U","V","W","X","Y","Z"}

DigitChars == <<"0","1","2","3","4","5","6","7","8","9">>

Digits == {DigitChars[i] : i \in 1..10}

\* ------------------------------------------- pysqlscribe/regex_patterns.py
\* column.py imports both patterns from this module; the two grammars
\* follow the written description of the Identifier Validator.

\* First character of a name segment: a letter or an underscore.
IsIdentStart(c) == c \in Letters \cup {"_"}

\* Any later character of a name segment: a letter, a digit or an underscore.
IsIdentChar(c) == c \in Letters \cup Digits \cup {"_"}

\* Plain identifier: one or more name segments joined by single dots, no
\* segment empty or starting with a digit (a, user_id, schema.table.column).
VALID_IDENTIFIER_REGEX_match(s) ==
    /\ Len(s) >= 1
    /\ IsIdentStart(s[1])
    /\ \A i \in 1..Len(s) : IsIdentChar(s[i]) \/ s[i] = "."
    /\ \A i \in 1..Len(s) :
          s[i] = "." => (i < Len(s) /\ IsIdentStart(s[i + 1]))

\* The closed list of aggregate keywords.
AggregateKeywords ==
    { <<"C","O","U","N","T">>, <<"S","U","M">>, <<"A","V","G">>,
      <<"M","I","N">>, <<"M","A","X">> }

\* Aggregate call: a keyword, "(", a plain identifier, ")".
AGGREGATE_IDENTIFIER_REGEX_match(s) ==
    \E kw \in AggregateKeywords :
        /\ Len(s) >= Len(kw) + 3
        /\ SubSeq(s, 1, Len(kw)) = kw
        /\ s[Len(kw) + 1] = "("
        /\ s[Len(s)] = ")"
        /\ VALID_IDENTIFIER_REGEX_match(SubSeq(s, Len(kw) + 2, Len(s) - 1))

\* Both names are compiled patterns: what column.py uses of the first is its
\* match method.  A compiled pattern has no call operator.
PatternIsCallable == FALSE

\* ------------------------------------------------------------------ Column

\* A result of the name setter: how it ended and the _name it leaves.
SetterResult(err, name) == [err |-> err, _name |-> name]

\* The value AGGREGATE_IDENTIFIER_REGEX(column_name) evaluates to: the
\* pattern object itself is called, which raises TypeError.
AGGREGATE_IDENTIFIER_REGEX_call(column_name) ==
    IF PatternIsCallable
    THEN [err |-> "none", val |-> AGGREGATE_IDENTIFIER_REGEX_match(column_name)]
    ELSE [err |-> "TypeError", val |-> FALSE]

\* A setter that stores the name before it validates it.
name_setter_StoreFirst(old, column_name) ==
    IF VALID_IDENTIFIER_REGEX_match(column_name)
    THEN SetterResult("none", column_name)
    ELSE LET agg == AGGREGATE_IDENTIFIER_REGEX_call(column_name) IN
         IF agg.err # "none" THEN SetterResult(agg.err, column_name)
         ELSE IF agg.val THEN SetterResult("none", column_name)
         ELSE SetterResult("InvalidColumnNameException", column_name)

\* A setter that stores the name without its last character.
name_setter_Truncating(old, column_name) ==
    IF VALID_IDENTIFIER_REGEX_match(column_name)
    THEN SetterResult("none", SubSeq(column_name, 1, Len(column_name) - 1))
    ELSE LET agg == AGGREGATE_IDENTIFIER_REGEX_call(column_name) IN
         IF agg.err # "none" THEN SetterResult(agg.err, old)
         ELSE IF agg.val THEN SetterResult("none", column_name)
         ELSE SetterResult("InvalidColumnNameException", old)

\* Column.name setter.  `or` evaluates its right operand only when the left
\* one is falsy; an exception leaves _name as it was (old).
name_setter(old, column_name) ==
    IF VALID_IDENTIFIER_REGEX_match(column_name)
    THEN SetterResult("none", column_name)
    ELSE LET agg == AGGREGATE_IDENTIFIER_REGEX_call(column_name) IN
         IF agg.err # "none" THEN SetterResult(agg.err, old)
         ELSE IF agg.val THEN SetterResult("none", column_name)
         ELSE SetterResult("InvalidColumnNameException", old)

\* Column.name getter.
name_getter(col) == col._name

\* -------------------------------------------------------------- Expression

\* Expression.__init__: the three fields, stored as given.
Expression(left, operator, right) ==
    [left |-> left, operator |-> operator, right |-> right]

\* A rendering that joins the three fields without the separating spaces.
__str__NoSpaces(self) == self.left \o self.operator \o self.right

\* Expression.__str__: f"{self.left} {self.operator} {self.right}".
__str__(self) ==
    self.left \o <<" ">> \o self.operator \o <<" ">> \o self.right

\* ---------------------------------------------------------------- operands

\* A right-hand operand: its Python type, and the value under that type.
Operand(kind, col, s, i) == [kind |-> kind, col |-> col, s |-> s, i |-> i]

ColumnOperand(c) == Operand("Column", <<c>>, <<>>, 0)
StrOperand(s)    == Operand("str", <<>>, s, 0)
IntOperand(i)    == Operand("int", <<>>, <<>>, i)
BoolOperand(b)   == Operand("bool", <<>>, <<>>, IF b THEN 1 ELSE 0)
FloatOperand     == Operand("float", <<>>, <<"1", ".", "5">>, 0)
NoneOperand      == Operand("NoneType", <<>>, <<>>, 0)

\* isinstance(other, Column)
IsInstanceColumn(other) == other.kind = "Column"

\* isinstance(other, str)
IsInstanceStr(other) == other.kind = "str"

\* isinstance(other, int): bool is a subclass of int.
IsInstanceInt(other) == other.kind \in {"int", "bool"}

\* str() of a natural number: its decimal digits, most significant first.
RECURSIVE NatStr(_)
NatStr(n) ==
    IF n < 10 THEN <<DigitChars[n + 1]>>
    ELSE NatStr(n \div 10) \o <<DigitChars[(n % 10) + 1]>>

\* str(other) for an int: a minus sign before the digits of a negative
\* number; for a bool: True or False.
IntStr(other) ==
    IF other.kind = "bool"
    THEN (IF other.i = 1 THEN <<"T","r","u","e">> ELSE <<"F","a","l","s","e">>)
    ELSE IF other.i < 0 THEN <<"-">> \o NatStr(0 - other.i)
    ELSE NatStr(other.i)

\* What a comparison returns: the error raised, or the Expression made.
Made(e) == [err |-> "none", made |-> <<e>>]
Raised(err) == [err |-> err, made |-> <<>>]

\* _expression that quotes the name of a Column operand like a string.
_expression_QuoteColumn(self, operator, other) ==
    IF IsInstanceColumn(other)
    THEN Made(Expression(name_getter(self), operator,
                         <<"'">> \o name_getter(other.col[1]) \o <<"'">>))
    ELSE IF IsInstanceStr(other)
    THEN Made(Expression(name_getter(self), operator,
                         <<"'">> \o other.s \o <<"'">>))
    ELSE IF IsInstanceInt(other)
    THEN Made(Expression(name_getter(self), operator, IntStr(other)))
    ELSE Raised("NotImplementedError")

\* Column._expression: the right text by the type of the operand.
_expression(self, operator, other) ==
    IF IsInstanceColumn(other)
    THEN Made(Expression(name_getter(self), operator, name_getter(other.col[1])))
    ELSE IF IsInstanceStr(other)
    THEN Made(Expression(name_getter(self), operator,
                         <<"'">> \o other.s \o <<"'">>))
    ELSE IF IsInstanceInt(other)
    THEN Made(Expression(name_getter(self), operator, IntStr(other)))
    ELSE Raised("NotImplementedError")

\* Column.__eq__
__eq__(self, other) == _expression(self, <<"=">>, other)

\* Column.__lt__
__lt__(self, other) == _expression(self, <<"<">>, other)

\* Column.__gt__
__gt__(self, other) == _expression(self, <<">">>, other)

\* A __le__ that passes the symbol of __lt__.
__le__Strict(self, other) == _expression(self, <<"<">>, other)

\* Column.__le__
__le__(self, other) == _expression(self, <<"<", "=">>, other)

\* Column.__ge__
__ge__(self, other) == _expression(self, <<">", "=">>, other)

\* ------------------------------------------------------------------ inputs

\* Names the caller passes: plain identifiers, aggregate calls, and names of
\* neither grammar (empty, leading digit).
PlainNames ==
    { <<"a">>,
      <<"o","r","d","e","r","s",".","u","s","e","r","_","i","d">> }

AggregateNames ==
    { <<"C","O","U","N","T","(","i","d",")">>,
      <<"S","U","M","(","a","m","o","u","n","t",")">> }

OtherNames ==
    { <<>>,
      <<"1","2","3","a","b","c">> }

Names == PlainNames \cup AggregateNames \cup OtherNames

\* String operands: one holding a single quote.
StrValues == { <<"o","'","k">> }

\* Integer operands: negative, zero, several digits with an inner zero.
IntValues == {0 - 12, 0, 105}

\* The operands a caller may pass, given the Column objects alive.
Operands(cols) ==
    {ColumnOperand(cols[c]) : c \in 1..Len(cols)}
        \cup {StrOperand(s) : s \in StrValues}
        \cup {IntOperand(i) : i \in IntValues}
        \cup {BoolOperand(b) : b \in BOOLEAN}
        \cup {FloatOperand, NoneOperand}

\* Values a caller assigns to an attribute of an Expression.
FieldValues == { <<"z">> }

\* ------------------------------------------------------------------- state

\* The record of a call: op the operation, col the index of the Column it
\* was called on (0: none), arg its argument, err the exception raised
\* ("none": it returned), out the string it returned.
Call(op, col, arg, err, out) ==
    [op |-> op, col |-> col, arg |-> arg, err |-> err, out |-> out]

NoArg == Operand("none", <<>>, <<>>, 0)

Init ==
    /\ columns = <<>>
    /\ expr = <<>>
    /\ last = Call("none", 0, NoArg, "none", <<>>)

\* Column(name): __init__ runs the setter on a new object; when the setter
\* raises, no object comes to exist.
Construct(name) ==
    /\ Len(columns) < MaxColumns
    /\ LET r == name_setter(<<>>, name) IN
       /\ columns' = IF r.err = "none"
                     THEN Append(columns, [_name |-> r._name])
                     ELSE columns
       /\ last' = Call("construct",
                       IF r.err = "none" THEN Len(columns) + 1 ELSE 0,
                       StrOperand(name), r.err, <<>>)
    /\ UNCHANGED expr

\* column.name = name on a live Column.
AssignName(i, name) ==
    /\ i \in 1..Len(columns)
    /\ LET r == name_setter(columns[i]._name, name) IN
       /\ columns' = [columns EXCEPT ![i] = [_name |-> r._name]]
       /\ last' = Call("assign", i, StrOperand(name), r.err, <<>>)
    /\ UNCHANGED expr

\* A comparison of columns[i] with other: the Expression returned becomes
\* the one followed; when the comparison raises, nothing is produced.
Compare(op, r, i, other) ==
    /\ expr' = IF r.err = "none" THEN r.made ELSE expr
    /\ last' = Call(op, i, other, r.err, <<>>)
    /\ UNCHANGED columns

Eq == \E i \in 1..Len(columns) : \E other \in Operands(columns) :
        Compare("__eq__", __eq__(columns[i], other), i, other)

Lt == \E i \in 1..Len(columns) : \E other \in Operands(columns) :
        Compare("__lt__", __lt__(columns[i], other), i, other)

Gt == \E i \in 1..Len(columns) : \E other \in Operands(columns) :
        Compare("__gt__", __gt__(columns[i], other), i, other)

Le == \E i \in 1..Len(columns) : \E other \in Operands(columns) :
        Compare("__le__", __le__(columns[i], other), i, other)

Ge == \E i \in 1..Len(columns) : \E other \in Operands(columns) :
        Compare("__ge__", __ge__(columns[i], other), i, other)

\* str(expression)
Render ==
    /\ expr # <<>>
    /\ last' = Call("__str__", 0, NoArg, "none", __str__(expr[1]))
    /\ UNCHANGED <<columns, expr>>

\* expression.left = v, expression.operator = v, expression.right = v: the
\* three fields are plain instance attributes.
AssignField(field, v) ==
    /\ expr # <<>>
    /\ expr' = <<[expr[1] EXCEPT ![field] = v]>>
    /\ last' = Call("setattr", 0, StrOperand(v), "none", <<>>)
    /\ UNCHANGED columns

ConstructAny == \E name \in Names : Construct(name)

AssignNameAny == \E i \in 1..Len(columns) : \E name \in Names : AssignName(i, name)

AssignFieldAny ==
    \E field \in {"left", "operator", "right"} : \E v \in FieldValues :
        AssignField(field, v)

Next ==
    \/ ConstructAny
    \/ AssignNameAny
    \/ Eq
    \/ Lt
    \/ Gt
    \/ Le
    \/ Ge
    \/ Render
    \/ AssignFieldAny

Spec == Init /\ [][Next]_vars

\* ------------------------------------------------------------------ claims

CompareOps == {"__eq__", "__lt__", "__gt__", "__le__", "__ge__"}

\* A name of one of the two grammars.
InGrammar(s) ==
    VALID_IDENTIFIER_REGEX_match(s) \/ AGGREGATE_IDENTIFIER_REGEX_match(s)

\* C1: in every reachable state, whatever constructions and name assignments
\* came before, failed ones included, the name of every live Column is a
\* plain identifier or an aggregate call.
C1_NameAlwaysInGrammar ==
    \A i \in 1..Len(columns) : InGrammar(name_getter(columns[i]))

\* C1 witness: a Column is alive and an assignment of a name of neither
\* grammar to it has just been refused.
C1_Witness ==
    /\ Len(columns) >= 1
    /\ last.op = "assign"
    /\ ~InGrammar(last.arg.s)
    /\ last.err # "none"

\* C2: constructing a Column from a name of neither grammar raises
\* InvalidColumnNameException and nothing else, and makes no Column.
C2_InvalidNameRaisesInvalidColumnName ==
    (last.op = "construct" /\ ~InGrammar(last.arg.s))
        => (last.err = "InvalidColumnNameException" /\ last.col = 0)

\* C3: constructing a Column from any aggregate call succeeds, also when
\* the name is no plain identifier.
C3_AggregateNameConstructs ==
    (last.op = "construct" /\ AGGREGATE_IDENTIFIER_REGEX_match(last.arg.s))
        => (last.err = "none" /\ last.col >= 1)

\* C4: constructing a Column from a plain identifier succeeds, and the name
\* read back from the new Column is the string passed in, unchanged.
C4_PlainNameRoundTrips ==
    (last.op = "construct" /\ VALID_IDENTIFIER_REGEX_match(last.arg.s))
        => /\ last.err = "none"
           /\ last.col = Len(columns)
           /\ last.col >= 1
           /\ name_getter(columns[last.col]) = last.arg.s

\* C4 witness: a dotted plain identifier has just been constructed.
C4_Witness ==
    /\ last.op = "construct"
    /\ last.err = "none"
    /\ last.arg.s = <<"o","r","d","e","r","s",".","u","s","e","r","_","i","d">>
    /\ Len(columns) = last.col

\* The number a string of decimal digits denotes.
RECURSIVE DigitsValue(_)
DigitsValue(s) ==
    IF Len(s) = 0 THEN 0
    ELSE 10 * DigitsValue(SubSeq(s, 1, Len(s) - 1))
            + (CHOOSE d \in 0..9 : DigitChars[d + 1] = s[Len(s)])

\* s is the decimal numeral of i: digits only, no leading zero, a minus
\* sign exactly before a negative number.
IsDecimalOf(s, i) ==
    LET body == IF i < 0 THEN SubSeq(s, 2, Len(s)) ELSE s IN
    /\ Len(body) >= 1
    /\ i < 0 => (Len(s) >= 2 /\ s[1] = "-")
    /\ \A k \in 1..Len(body) : body[k] \in Digits
    /\ Len(body) > 1 => body[1] # "0"
    /\ DigitsValue(body) = (IF i < 0 THEN 0 - i ELSE i)

\* s is v between two single quotes, v itself unchanged.
IsQuoted(s, v) ==
    /\ Len(s) = Len(v) + 2
    /\ s[1] = "'"
    /\ s[Len(s)] = "'"
    /\ SubSeq(s, 2, Len(s) - 1) = v

\* C5: after any of the five comparisons, the right text of the Expression
\* produced follows the kind of the operand: the raw name of a Column, the
\* value between single quotes for a string, the decimal numeral for an
\* integer.
C5_RightTextByOperandKind ==
    (last.op \in CompareOps /\ last.arg.kind \in {"Column", "str", "int"})
        => /\ last.err = "none"
           /\ expr # <<>>
           /\ last.arg.kind = "Column" =>
                 expr[1].right = last.arg.col[1]._name
           /\ last.arg.kind = "str" => IsQuoted(expr[1].right, last.arg.s)
           /\ last.arg.kind = "int" => IsDecimalOf(expr[1].right, last.arg.i)

\* C5 witness: a Column has just been compared with another Column of a
\* different name.
C5_Witness ==
    /\ last.op = "__ge__"
    /\ last.err = "none"
    /\ last.arg.kind = "Column"
    /\ last.arg.col[1]._name # columns[last.col]._name
    /\ expr[1].right = last.arg.col[1]._name

\* C6: any of the five comparisons with an operand that is no Column, no
\* string and no integer raises NotImplementedError and produces no
\* Expression.
C6_OtherKindsRaise ==
    (last.op \in CompareOps /\ last.arg.kind \notin {"Column", "str", "int"})
        => last.err = "NotImplementedError"

\* C7: every rendering of an Expression returns its left text, a space, its
\* operator, a space and its right text, and leaves the three fields as they
\* were, however many renderings came before.
C7_RenderIsLeftOpRight ==
    [][last'.op = "__str__" =>
         /\ expr # <<>>
         /\ expr' = expr
         /\ Len(last'.out) = Len(expr[1].left) + Len(expr[1].operator)
                               + Len(expr[1].right) + 2
         /\ last'.out = expr[1].left \o <<" ">> \o expr[1].operator
                          \o <<" ">> \o expr[1].right]_vars

\* C7 witness: the Expression of a == 105 has just been rendered.
C7_Witness ==
    /\ last.op = "__str__"
    /\ last.out = <<"a", " ", "=", " ", "1", "0", "5">>

\* C8: the fields of a constructed Expression never take another value: a
\* step that produces no new Expression leaves the Expression as it was.
C8_FieldsNeverChange ==
    [][(expr # <<>> /\ ~(last'.op \in CompareOps /\ last'.err = "none"))
          => expr' = expr]_vars

\* The operator symbol each comparison stands for.
SymbolOf(op) ==
    CASE op = "__eq__" -> <<"=">>
      [] op = "__lt__" -> <<"<">>
      [] op = "__gt__" -> <<">">>
      [] op = "__le__" -> <<"<", "=">>
      [] op = "__ge__" -> <<">", "=">>

\* C9: the Expression a comparison produces has the name of the Column the
\* comparison was called on as its left text and the symbol of the
\* comparison called as its operator.
C9_LeftAndOperator ==
    (last.op \in CompareOps /\ last.err = "none")
        => /\ expr # <<>>
           /\ expr[1].left = name_getter(columns[last.col])
           /\ expr[1].operator = SymbolOf(last.op)

\* C9 witness: a less-or-equal comparison has just produced an Expression.
C9_Witness ==
    /\ last.op = "__le__"
    /\ last.err = "none"
    /\ expr # <<>>
    /\ expr[1].operator = <<"<", "=">>

\* C10: assigning a name of neither grammar to a live Column raises, and
\* every Column keeps the name it had.
C10_RefusedAssignmentKeepsName ==
    [][(last'.op = "assign" /\ ~InGrammar(last'.arg.s))
          => (last'.err # "none" /\ columns' = columns)]_vars

\* C10 witness: the name 123abc has just been refused on a live Column.
C10_Witness ==
    /\ last.op = "assign"
    /\ last.arg.s = <<"1", "2", "3", "a", "b", "c">>
    /\ last.err # "none"
    /\ Len(columns) >= 1

====
